---- MODULE Spec2Model ----
(***************************************************************************)
(* Model of the Nim advisor of src/gui.py: the module-level nim-sum, and   *)
(* the NimAdvisorApp handlers start_new_game, analyze_current_state,       *)
(* find_optimal_moves, apply_optimal_move, apply_opponent_move, end_game.  *)
(* The widgets are modelled by what they let the user do: which controls   *)
(* the move frame holds, the text of the status line, and the game-over    *)
(* line of the log.                                                        *)
(***************************************************************************)
EXTENDS Integers, Sequences, FiniteSets, TLC

\* ------------------------------------------------------------------ bounds
\* The largest number a user types, the largest number of tokens typed into
\* the start entry, and the largest sum of the numbers typed into it.
MaxSize == 5
MaxTokens == 3
MaxTotal == 7

\* ------------------------------------------------------------- user input
\* A whitespace-separated token of an entry field.  "digits" is a string of
\* ASCII digits (val >= 0), "signed" a minus sign followed by digits,
\* "word" any text with a non-digit character, and "superscript" a string
\* such as U+00B2 for which str.isdigit() is true but int() raises.
Tokens ==
    [kind : {"digits"}, val : 0..MaxSize]
        \cup {[kind |-> "signed", val |-> -1],
              [kind |-> "word", val |-> 0],
              [kind |-> "superscript", val |-> 0]}

RECURSIVE SeqsUpTo(_, _)
SeqsUpTo(S, n) ==
    IF n = 0 THEN {<<>>}
    ELSE LET shorter == SeqsUpTo(S, n - 1)
         IN  shorter \cup {Append(s, x) : s \in {t \in shorter : Len(t) = n - 1}, x \in S}

\* The sum of the numbers among the tokens.
RECURSIVE Total(_)
Total(input) ==
    IF input = <<>> THEN 0
    ELSE (IF Head(input).kind = "digits" THEN Head(input).val ELSE 0) + Total(Tail(input))

\* What the user can have typed into the start entry (self.start_input).
StartInputs == {input \in SeqsUpTo(Tokens, MaxTokens) : Total(input) <= MaxTotal}

\* str.isdigit() of a token.
isdigit(t) == t.kind \in {"digits", "superscript"}

\* int() of a token raises ValueError on these.
IntRaises(t) == t.kind \in {"word", "superscript"}

\* int() of a token on which it does not raise.
int(t) == t.val

\* ---------------------------------------------------------------- nim-sum
\* Python's x ^ y on non-negative integers of unbounded width.
RECURSIVE Xor(_, _)
Xor(x, y) ==
    IF x = 0 THEN y
    ELSE IF y = 0 THEN x
    ELSE 2 * Xor(x \div 2, y \div 2) + (((x % 2) + (y % 2)) % 2)

\* functools.reduce(lambda x, y: x ^ y, rest, acc): a left fold.
RECURSIVE reduce(_, _)
reduce(acc, rest) ==
    IF rest = <<>> THEN acc
    ELSE reduce(Xor(acc, Head(rest)), Tail(rest))

\* calculate_nim_sum with the fold started at 0 after the first heap.
calculate_nim_sum_after_first(hs) ==
    IF hs # <<>> THEN reduce(0, Tail(hs)) ELSE 0

\* calculate_nim_sum(heaps)
calculate_nim_sum(hs) ==
    IF hs # <<>> THEN reduce(Head(hs), Tail(hs)) ELSE 0

\* ---------------------------------------------------------- optimal moves
\* Move with the two computed sizes stored under each other's key.
MoveSwapped(i, heap_size, target_size) ==
    [heap_index |-> i + 1,
     current_size |-> heap_size,
     remove_amount |-> target_size,
     new_size |-> heap_size - target_size,
     heap_true_index |-> i]

\* The dict appended for the heap at 0-based index i.
Move(i, heap_size, target_size) ==
    [heap_index |-> i + 1,
     current_size |-> heap_size,
     remove_amount |-> heap_size - target_size,
     new_size |-> target_size,
     heap_true_index |-> i]

\* find_from with the test target_size <= heap_size.
RECURSIVE find_from_le(_, _, _)
find_from_le(hs, nim_sum, i) ==
    IF i >= Len(hs) THEN <<>>
    ELSE LET heap_size == hs[i + 1]
             target_size == Xor(heap_size, nim_sum)
         IN  IF target_size <= heap_size
             THEN <<Move(i, heap_size, target_size)>> \o find_from_le(hs, nim_sum, i + 1)
             ELSE find_from_le(hs, nim_sum, i + 1)

\* find_from with each move inserted at the front of the list.
RECURSIVE find_from_prepending(_, _, _)
find_from_prepending(hs, nim_sum, i) ==
    IF i >= Len(hs) THEN <<>>
    ELSE LET heap_size == hs[i + 1]
             target_size == Xor(heap_size, nim_sum)
         IN  IF target_size < heap_size
             THEN find_from_prepending(hs, nim_sum, i + 1) \o <<Move(i, heap_size, target_size)>>
             ELSE find_from_prepending(hs, nim_sum, i + 1)

\* The loop of find_optimal_moves from 0-based index i on.
RECURSIVE find_from(_, _, _)
find_from(hs, nim_sum, i) ==
    IF i >= Len(hs) THEN <<>>
    ELSE LET heap_size == hs[i + 1]
             target_size == Xor(heap_size, nim_sum)
         IN  IF target_size < heap_size
             THEN <<Move(i, heap_size, target_size)>> \o find_from(hs, nim_sum, i + 1)
             ELSE find_from(hs, nim_sum, i + 1)

\* find_optimal_moves with the loop starting at the second heap.
find_optimal_moves_from_second(hs, nim_sum) == find_from(hs, nim_sum, 1)

\* find_optimal_moves(heaps, nim_sum)
find_optimal_moves(hs, nim_sum) == find_from(hs, nim_sum, 0)

\* ------------------------------------------------------------------ texts
PLAYER_1 == "Player 1 (You)"
OPPONENT == "Opponent (Computer)"

STATUS_INITIAL == "Start a new game to begin tracking moves."
STATUS_LOSING == "STATUS: LOSING POSITION (Nim-sum = 0). Opponent is winning."
\* (the source writes the inequality with the sign U+2260)
STATUS_WINNING == "STATUS: WINNING POSITION (Nim-sum != 0). You can force a win."
ERROR_HEAPS == "ERROR: Invalid starting heaps."
ERROR_FORMAT == "ERROR: Invalid input format. Check your numbers."
ERROR_INDEX == "ERROR: Invalid Heap Index."
\* (the source appends "Must be 1 to <current_size>.")
ERROR_AMOUNT == "ERROR: Invalid remove amount."
ERROR_NUMBERS == "ERROR: Please enter valid numbers for index and amount."
PLAYER_1_WINS == "Player 1 (You) Win!"
OPPONENT_WINS == "Opponent Wins!"

\* "GAME OVER: " + message
GameOverStatus(message) ==
    IF message = PLAYER_1_WINS THEN "GAME OVER: Player 1 (You) Win!"
    ELSE "GAME OVER: Opponent Wins!"

\* ------------------------------------------------------------------ state
VARIABLES
    heaps,          \* self.heaps
    turn_count,     \* self.turn_count
    move_options,   \* self.move_options
    player,         \* the player named in the last turn header, "" before a game
    status_var,     \* self.status_var
    move_frame,     \* the controls in self.move_frame: "none", "optimal", "opponent"
    log_game_over   \* the message of the log's GAME OVER line, "" when it has none

vars == <<heaps, turn_count, move_options, player, status_var, move_frame, log_game_over>>

Init ==
    /\ heaps = <<>>
    /\ turn_count = 0
    /\ move_options = <<>>
    /\ player = ""
    /\ status_var = STATUS_INITIAL
    /\ move_frame = "none"
    /\ log_game_over = ""

\* --------------------------------------------------------------- handlers
\* [h for h in hs if h >= 0] in the place of h > 0.
NonNegative(hs) == SelectSeq(hs, LAMBDA h : h >= 0)

\* [h for h in hs if h > 0]
Positive(hs) == SelectSeq(hs, LAMBDA h : h > 0)

\* any(h == 0 for h in hs) in the place of all(...).
AnyZero(hs) == \E i \in DOMAIN hs : hs[i] = 0

\* all(h == 0 for h in hs)
AllZero(hs) == \A i \in DOMAIN hs : hs[i] = 0

\* analyze_current_state(player=p), run on heaps hs with turn counter tc.
\* It writes the turn header, then either offers the manual move entry
\* (nim-sum 0) or computes and offers the optimal moves.
analyze_current_state(p, hs, tc) ==
    LET nim_sum == calculate_nim_sum(hs)
    IN  /\ turn_count' = tc + 1
        /\ player' = p
        /\ IF nim_sum = 0
           THEN /\ status_var' = STATUS_LOSING
                /\ move_frame' = "opponent"
                /\ UNCHANGED move_options
           ELSE /\ status_var' = STATUS_WINNING
                /\ move_options' = find_optimal_moves(hs, nim_sum)
                /\ move_frame' = "optimal"

\* end_game without the destruction of the move frame's widgets.
end_game_keeps_widgets(message) ==
    /\ status_var' = GameOverStatus(message)
    /\ log_game_over' = message
    /\ UNCHANGED move_frame

\* end_game(message)
end_game(message) ==
    /\ status_var' = GameOverStatus(message)
    /\ log_game_over' = message
    /\ move_frame' = "none"

\* The list comprehensions of start_new_game raise when int() does: on a
\* token that passes isdigit() and that int() rejects.
ParseRaises(input) ==
    \E k \in DOMAIN input : isdigit(input[k]) /\ IntRaises(input[k])

\* [int(h) for h in tokens if h.isdigit()]
RECURSIVE ParseDigits(_)
ParseDigits(input) ==
    IF input = <<>> THEN <<>>
    ELSE IF isdigit(Head(input))
         THEN <<int(Head(input))>> \o ParseDigits(Tail(input))
         ELSE ParseDigits(Tail(input))

\* The try block of start_new_game up to the assignment of new_heaps:
\* whether it raised, and the list it computed otherwise.
Parse(input) ==
    IF ParseRaises(input)
    THEN [raises |-> TRUE, new_heaps |-> <<>>]
    ELSE [raises |-> FALSE, new_heaps |-> Positive(ParseDigits(input))]

\* The results of parsing what the user can have typed.
ParsedInputs == {Parse(input) : input \in StartInputs}

\* start_new_game without the reset of self.turn_count.
start_new_game_keeps_count(parsed) ==
    IF parsed.raises
    THEN /\ status_var' = ERROR_FORMAT
         /\ UNCHANGED <<heaps, turn_count, move_options, player, move_frame, log_game_over>>
    ELSE IF parsed.new_heaps = <<>>
    THEN /\ status_var' = ERROR_HEAPS
         /\ UNCHANGED <<heaps, turn_count, move_options, player, move_frame, log_game_over>>
    ELSE /\ heaps' = parsed.new_heaps
         /\ log_game_over' = ""
         /\ analyze_current_state(PLAYER_1, parsed.new_heaps, turn_count)

\* start_new_game, from the point where the start entry has been parsed
\* into `parsed`.
start_new_game(parsed) ==
    IF parsed.raises
    THEN /\ status_var' = ERROR_FORMAT
         /\ UNCHANGED <<heaps, turn_count, move_options, player, move_frame, log_game_over>>
    ELSE IF parsed.new_heaps = <<>>
    THEN /\ status_var' = ERROR_HEAPS
         /\ UNCHANGED <<heaps, turn_count, move_options, player, move_frame, log_game_over>>
    ELSE /\ heaps' = parsed.new_heaps
         /\ log_game_over' = ""
         /\ analyze_current_state(PLAYER_1, parsed.new_heaps, 0)

\* apply_optimal_move(move_index): the button "Option move_index + 1".
apply_optimal_move(move_index) ==
    /\ move_frame = "optimal"
    /\ move_index \in 0..(Len(move_options) - 1)
    /\ LET move == move_options[move_index + 1]
           updated == [heaps EXCEPT ![move.heap_true_index + 1] = move.new_size]
       IN  IF AllZero(updated)
           THEN /\ heaps' = updated
                /\ end_game(PLAYER_1_WINS)
                /\ UNCHANGED <<turn_count, move_options, player>>
           ELSE /\ heaps' = Positive(updated)
                /\ analyze_current_state(OPPONENT, Positive(updated), turn_count)
                /\ UNCHANGED log_game_over

\* 1 <= heap_index <= len(self.heaps)
ValidIndex(heap_index, hs) == 1 <= heap_index /\ heap_index <= Len(hs)

\* The amount test with 0 as its lower limit.
ValidAmountFromZero(amount_to_remove, current_size) ==
    0 <= amount_to_remove /\ amount_to_remove <= current_size

\* 1 <= amount_to_remove <= current_size
ValidAmount(amount_to_remove, current_size) ==
    1 <= amount_to_remove /\ amount_to_remove <= current_size

\* apply_opponent_move with the two entries holding heap_entry and
\* remove_entry: the button "Log Opponent Move".
apply_opponent_move(heap_entry, remove_entry) ==
    /\ move_frame = "opponent"
    /\ IF IntRaises(heap_entry) \/ IntRaises(remove_entry)
       THEN /\ status_var' = ERROR_NUMBERS
            /\ UNCHANGED <<heaps, turn_count, move_options, player, move_frame, log_game_over>>
       ELSE LET heap_index == int(heap_entry)
                amount_to_remove == int(remove_entry)
            IN  IF ~ValidIndex(heap_index, heaps)
                THEN /\ status_var' = ERROR_INDEX
                     /\ UNCHANGED <<heaps, turn_count, move_options, player, move_frame, log_game_over>>
                ELSE IF ~ValidAmount(amount_to_remove, heaps[heap_index])
                THEN /\ status_var' = ERROR_AMOUNT
                     /\ UNCHANGED <<heaps, turn_count, move_options, player, move_frame, log_game_over>>
                ELSE LET updated == [heaps EXCEPT ![heap_index] = @ - amount_to_remove]
                     IN  IF AllZero(updated)
                         THEN /\ heaps' = updated
                              /\ end_game(OPPONENT_WINS)
                              /\ UNCHANGED <<turn_count, move_options, player>>
                         ELSE /\ heaps' = Positive(updated)
                              /\ analyze_current_state(PLAYER_1, Positive(updated), turn_count)
                              /\ UNCHANGED log_game_over

StartNewGame == \E parsed \in ParsedInputs : start_new_game(parsed)

ApplyOptimalMove ==
    \E move_index \in 0..(Len(move_options) - 1) : apply_optimal_move(move_index)

ApplyOpponentMove ==
    \E heap_entry \in Tokens, remove_entry \in Tokens :
        apply_opponent_move(heap_entry, remove_entry)

Next == StartNewGame \/ ApplyOptimalMove \/ ApplyOpponentMove

Spec == Init /\ [][Next]_vars

\* ------------------------------------------------- one game, played out
\* The sum of the heap sizes.
RECURSIVE HeapSum(_)
HeapSum(hs) == IF hs = <<>> THEN 0 ELSE Head(hs) + HeapSum(Tail(hs))

\* The heap lists a first game can be started on: what start_new_game
\* assigns to self.heaps, non-empty and all positive, here with no limit
\* on their sum.
HeapLists == SeqsUpTo(1..MaxSize, MaxTokens) \ {<<>>}

\* The state in which start_new_game, called on the application as
\* constructed, leaves a game on the list hs: turn_count 0 + 1, the header
\* of the advised player, and the analysis of the list.
StartedOn(hs) ==
    /\ heaps = hs
    /\ turn_count = 1
    /\ player = PLAYER_1
    /\ log_game_over = ""
    /\ IF calculate_nim_sum(hs) = 0
       THEN /\ status_var = STATUS_LOSING
            /\ move_frame = "opponent"
            /\ move_options = <<>>
       ELSE /\ status_var = STATUS_WINNING
            /\ move_options = find_optimal_moves(hs, calculate_nim_sum(hs))
            /\ move_frame = "optimal"

\* A first game on any of the heap lists.
InitPlay == \E hs \in HeapLists : StartedOn(hs)

\* A first game on a list that the start entry of Spec can hold.
InitGame == \E hs \in {l \in HeapLists : HeapSum(l) <= MaxTotal} : StartedOn(hs)

\* A call of apply_opponent_move that the handler does not reject.
AcceptedOpponentMove ==
    \E heap_entry \in Tokens, remove_entry \in Tokens :
        /\ apply_opponent_move(heap_entry, remove_entry)
        /\ status_var' \notin {ERROR_NUMBERS, ERROR_INDEX, ERROR_AMOUNT}

\* The moves of the game: the entries that apply_opponent_move rejects
\* change nothing but the status line and are left out.
NextGame == ApplyOptimalMove \/ AcceptedOpponentMove

\* A game on any heap list, played without a new start.
SpecPlay == InitPlay /\ [][NextGame]_vars

\* The game is played without a new start, and the user does not stop
\* while a move can be applied.
SpecGame == InitGame /\ [][NextGame]_vars /\ WF_vars(NextGame)

\* ----------------------------------------------------------------- claims
\* A game has been started (a turn header has been written).
Started == player # ""

\* The game is over: end_game has run since the last successful start.
Terminal == log_game_over # ""

\* The heaps after `move` is applied to hs, as apply_optimal_move stores it.
Applied(hs, move) == [hs EXCEPT ![move.heap_true_index + 1] = move.new_size]

\* C1: in a position of non-zero nim-sum every move that find_optimal_moves
\* returns leads to a position of nim-sum 0, the offered options are those
\* moves, and after an optimal move that does not end the game (the turn
\* header names the opponent) the analysis found nim-sum 0 and offers the
\* manual entry of a Losing position.
C1_OptimalMoveReachesZero ==
    LET nim_sum == calculate_nim_sum(heaps)
        moves == find_optimal_moves(heaps, nim_sum)
    IN  /\ nim_sum # 0 =>
               \A k \in DOMAIN moves : calculate_nim_sum(Applied(heaps, moves[k])) = 0
        /\ move_frame = "optimal" => nim_sum # 0 /\ move_options = moves
        /\ (player = OPPONENT /\ ~Terminal) =>
               /\ nim_sum = 0
               /\ move_frame = "opponent"
               /\ status_var # STATUS_WINNING

\* C1 witness: an optimal move has just been applied to a position of two
\* or more heaps and the opponent faces the Losing analysis.
C1_Witness ==
    /\ player = OPPONENT
    /\ status_var = STATUS_LOSING
    /\ Len(heaps) >= 2
    /\ turn_count = 2

\* C2: whenever the position of a game in progress has nim-sum 0 it is
\* classified Losing (the manual entry is offered, the status is never the
\* Winning one) and find_optimal_moves returns the empty sequence for it.
C2_ZeroNimSumIsLosing ==
    (Started /\ ~Terminal /\ calculate_nim_sum(heaps) = 0) =>
        /\ move_frame = "opponent"
        /\ status_var # STATUS_WINNING
        /\ find_optimal_moves(heaps, calculate_nim_sum(heaps)) = <<>>

\* C2 witness: the position [1, 1] has been analysed as Losing.
C2_Witness ==
    /\ heaps = <<1, 1>>
    /\ status_var = STATUS_LOSING
    /\ move_frame = "opponent"

\* The message end_game is given when player p wins.
WinMessage(p) == IF p = PLAYER_1 THEN PLAYER_1_WINS ELSE OPPONENT_WINS

\* C4: a started game is over exactly when all heaps are 0, and the winner
\* declared is the player named in the header of the turn in which the
\* zeroing move was applied.
C4_TerminalAtZeroLastMoverWins ==
    Started =>
        /\ Terminal <=> (\A i \in DOMAIN heaps : heaps[i] = 0)
        /\ Terminal =>
               /\ log_game_over = WinMessage(player)
               /\ move_frame = "none"

\* C4 witness: from [1] on the advised player's turn the heap was taken and
\* the advised player declared the winner.
C4_Witness ==
    /\ heaps = <<0>>
    /\ player = PLAYER_1
    /\ turn_count = 1
    /\ status_var = GameOverStatus(PLAYER_1_WINS)
    /\ log_game_over = PLAYER_1_WINS

\* C8 as claimed: every element of the heap sequence is strictly positive
\* in every reachable state, the state left at game over included.
C8_HeapsPositive == \A i \in DOMAIN heaps : heaps[i] > 0

\* C9 as claimed: in a started game, the game is over exactly when the
\* heap sequence is empty.
C9_TerminalIffEmpty == Started => (Terminal <=> heaps = <<>>)
\* C3 as claimed: every move applied through either input path that leaves
\* the game running hands the turn to the other player.
C3_TurnsAlternate ==
    [][((ApplyOptimalMove \/ ApplyOpponentMove) /\ turn_count' = turn_count + 1)
          => player' # player]_vars

\* The step is a successful start_new_game: the start entry parsed to the
\* non-empty list that heaps now holds.
SuccessfulStart ==
    /\ heaps' # <<>>
    /\ [raises |-> FALSE, new_heaps |-> heaps'] \in ParsedInputs
    /\ start_new_game([raises |-> FALSE, new_heaps |-> heaps'])

\* C5: once the game is over no move can be applied (neither handler is
\* enabled), and every step that is not a successful start_new_game leaves
\* the heaps, the turn counter, the player of the last turn, the logged
\* winner and the emptied move frame as they are.
C5_TerminalAbsorbing ==
    /\ [](Terminal => ~ENABLED ApplyOptimalMove /\ ~ENABLED ApplyOpponentMove)
    /\ [][(Terminal /\ ~SuccessfulStart) =>
              UNCHANGED <<heaps, turn_count, player, move_frame, log_game_over>>]_vars

\* C5 witness: the game is over and a later operation (a start with no
\* positive heap) has been attempted on the finished game.
C5_Witness ==
    /\ Terminal
    /\ heaps = <<0>>
    /\ status_var = ERROR_HEAPS

\* The two entries hold integers and the claim's rejection applies: the
\* index is outside [1, len(heaps)] or the amount outside [1, heap size].
Rejected(heap_entry, remove_entry) ==
    /\ ~IntRaises(heap_entry)
    /\ ~IntRaises(remove_entry)
    /\ \/ int(heap_entry) \notin 1..Len(heaps)
       \/ int(remove_entry) \notin 1..heaps[int(heap_entry)]

\* The outcome the claim gives a rejected move: an error status, and the
\* heaps, the turn counter, the player to move, the stored move options,
\* the manual entry and the log as they were.
RejectionOnly ==
    /\ status_var' \in {ERROR_INDEX, ERROR_AMOUNT}
    /\ move_frame' = "opponent"
    /\ UNCHANGED <<heaps, turn_count, player, move_options, log_game_over>>

\* C6: wherever the manual entry is offered, apply_opponent_move on an
\* index or amount that is out of range runs, and it can end in no other
\* way than with an error status and the rest of the state unchanged.
C6_RejectedMoveChangesNothing ==
    \A heap_entry \in Tokens, remove_entry \in Tokens :
        (move_frame = "opponent" /\ Rejected(heap_entry, remove_entry)) =>
            /\ ENABLED apply_opponent_move(heap_entry, remove_entry)
            /\ ~ENABLED (apply_opponent_move(heap_entry, remove_entry) /\ ~RejectionOnly)

\* C6 witness: in a running game of two heaps, past its first turn, a move
\* has been rejected for its amount.
C6_Witness ==
    /\ status_var = ERROR_AMOUNT
    /\ move_frame = "opponent"
    /\ Len(heaps) = 2
    /\ turn_count >= 2

\* The inputs of the claim: no token, or only zeros, negative numbers and
\* non-numeric words.
NoPositiveInputs ==
    {input \in StartInputs :
        \A k \in DOMAIN input :
            \/ input[k].kind \in {"signed", "word"}
            \/ input[k].kind = "digits" /\ input[k].val = 0}

NoPositiveParsed == {Parse(input) : input \in NoPositiveInputs}

\* C7: start_new_game on an input with no positive heap size sets the
\* invalid-heaps error and leaves the heaps, the turn counter, the player
\* to move, the move options, the move frame and the log as they were.
C7_InvalidStartChangesNothing ==
    [][\A parsed \in NoPositiveParsed :
          start_new_game(parsed)
          => /\ status_var' = ERROR_HEAPS
             /\ UNCHANGED <<heaps, turn_count, player, move_options, move_frame,
                            log_game_over>>]_vars

\* C7 witness: a game in progress, past its first turn, on which a start
\* without positive heaps was rejected.
C7_Witness ==
    /\ status_var = ERROR_HEAPS
    /\ ~Terminal
    /\ turn_count >= 2
    /\ Len(heaps) >= 1

\* The move options of a session created afresh on the heaps hs.
FreshMoveOptions(hs) ==
    IF calculate_nim_sum(hs) = 0 THEN <<>>
    ELSE find_optimal_moves(hs, calculate_nim_sum(hs))

\* C10 as claimed: a successful start_new_game leaves a session that holds
\* nothing of the previous game: first turn of the advised player, game
\* not over, controls offered, and move options that are those of a
\* session created afresh on the new heaps.
C10_StartReplacesSession ==
    [][SuccessfulStart =>
          /\ turn_count' = 1
          /\ player' = PLAYER_1
          /\ log_game_over' = ""
          /\ move_frame' # "none"
          /\ status_var' \in {STATUS_LOSING, STATUS_WINNING}
          /\ move_options' = FreshMoveOptions(heaps')]_vars
\* C11: the opponent is never declared the winner.  The manual entry is
\* offered only on a position of nim-sum 0, which has at least two heaps
\* and so cannot be emptied by one move, and a game that is over was won
\* by "Player 1 (You) Win!".
C11_OpponentNeverWins ==
    /\ log_game_over # OPPONENT_WINS
    /\ status_var # GameOverStatus(OPPONENT_WINS)
    /\ Terminal => log_game_over = PLAYER_1_WINS
    /\ move_frame = "opponent" =>
           /\ calculate_nim_sum(heaps) = 0
           /\ Len(heaps) >= 2

\* C11 witness: a game in which opponent moves were applied has ended, won
\* by the advised player.
C11_Witness ==
    /\ log_game_over = PLAYER_1_WINS
    /\ turn_count >= 3

\* C12: find_optimal_moves returns at least one move for a non-empty
\* position of non-zero nim-sum, and in every running game a move can be
\* applied: an optimal-move button when the nim-sum is not 0, an accepted
\* manual entry when it is 0.
C12_MoveAlwaysEnabled ==
    LET nim_sum == calculate_nim_sum(heaps)
    IN  /\ (heaps # <<>> /\ nim_sum # 0) => find_optimal_moves(heaps, nim_sum) # <<>>
        /\ (Started /\ ~Terminal) =>
               IF nim_sum # 0
               THEN move_frame = "optimal" /\ ENABLED ApplyOptimalMove
               ELSE move_frame = "opponent" /\ ENABLED AcceptedOpponentMove

\* C12 witness: a Winning position of three heaps is offered its buttons.
C12_Witness ==
    /\ move_frame = "optimal"
    /\ Len(heaps) = 3
    /\ Len(move_options) >= 1
    /\ ~Terminal

\* The heaps hs with amount a taken from the heap at 1-based index i.
Taken(hs, i, a) == [hs EXCEPT ![i] = @ - a]

\* C13: from a position of nim-sum 0 every legal move (any heap, any
\* amount from 1 to its size) gives a position of non-zero nim-sum, and
\* a manual entry that is not rejected ends in the Winning analysis with
\* the optimal-move buttons, one turn later.
C13_ZeroNimSumMovesToNonZero ==
    /\ [](calculate_nim_sum(heaps) = 0 =>
             \A i \in DOMAIN heaps : \A a \in 1..heaps[i] :
                 /\ calculate_nim_sum(Taken(heaps, i, a)) # 0
                 /\ calculate_nim_sum(Positive(Taken(heaps, i, a))) # 0)
    /\ [][(/\ move_frame = "opponent"
            /\ ~SuccessfulStart
            /\ status_var' \notin {ERROR_NUMBERS, ERROR_INDEX, ERROR_AMOUNT,
                                   ERROR_FORMAT, ERROR_HEAPS})
              => /\ status_var' = STATUS_WINNING
                 /\ move_frame' = "optimal"
                 /\ move_options' # <<>>
                 /\ calculate_nim_sum(heaps') # 0
                 /\ turn_count' = turn_count + 1]_vars

\* C13 witness: an opponent move has just been applied to a position of
\* three heaps and the analysis reports a Winning position.
C13_Witness ==
    /\ player = PLAYER_1
    /\ turn_count >= 2
    /\ status_var = STATUS_WINNING
    /\ Len(heaps) = 3

\* C14: no move handler increases the sum of the heap sizes, a call that
\* is not rejected strictly decreases it, the turn counter never grows by
\* more than the sum falls (so a game of total T takes at most T applied
\* moves), and with applicable moves eventually applied the game is over
\* in the end.
C14_GameTerminates ==
    /\ [][/\ HeapSum(heaps') <= HeapSum(heaps)
          /\ status_var' \notin {ERROR_NUMBERS, ERROR_INDEX, ERROR_AMOUNT}
                 => HeapSum(heaps') < HeapSum(heaps)
          /\ turn_count' + HeapSum(heaps') <= turn_count + HeapSum(heaps)]_vars
    /\ <>Terminal

\* C14 witness: a game is over on its third turn or later, its last heap
\* at 0, after moves of both kinds.
C14_Witness ==
    /\ Terminal
    /\ Len(heaps) = 1
    /\ HeapSum(heaps) = 0
    /\ turn_count >= 3

\* C15: a successful start_new_game leaves the turn counter at 1 (0, then
\* the first evaluation), every other step that ends in an evaluation (the
\* Losing or Winning status) adds exactly 1, and every other step, a
\* rejected entry, a failed start or the game-ending move, leaves it as it
\* is; in a running game it is at least 1.
C15_TurnCounter ==
    /\ []((Started /\ ~Terminal) => turn_count >= 1)
    /\ [][IF SuccessfulStart
          THEN turn_count' = 1
          ELSE IF status_var' \in {STATUS_LOSING, STATUS_WINNING}
               THEN turn_count' = turn_count + 1 /\ heaps' # heaps
               ELSE turn_count' = turn_count]_vars

\* C15 witness: the third turn of a game, reached by two applied moves, on
\* which an entry was then rejected.
C15_Witness ==
    /\ turn_count = 3
    /\ status_var = ERROR_AMOUNT
    /\ ~Terminal

\* The entry text of the number n.
Digits(n) == [kind |-> "digits", val |-> n]

\* The heaps hs after amount a is removed from the heap at 1-based index
\* i: the heaps before it, the reduced heap unless it is empty, the heaps
\* after it.
Removed(hs, i, a) ==
    SubSeq(hs, 1, i - 1)
        \o (IF hs[i] - a > 0 THEN <<hs[i] - a>> ELSE <<>>)
        \o SubSeq(hs, i + 1, Len(hs))

\* C16: a move that is applied and leaves the game running changes the
\* heap sequence to exactly the old one with the targeted heap reduced by
\* the amount, or dropped when it reached 0, for every legal manual entry
\* and for every optimal-move button (each handler call is deterministic,
\* so its one outcome is the one described).
C16_MoveChangesOnlyTarget ==
    /\ move_frame = "opponent" =>
           \A i \in 1..Len(heaps) : \A a \in 1..heaps[i] :
               ENABLED (/\ apply_opponent_move(Digits(i), Digits(a))
                        /\ log_game_over' = "" => heaps' = Removed(heaps, i, a))
    /\ move_frame = "optimal" =>
           \A k \in 0..(Len(move_options) - 1) :
               ENABLED (/\ apply_optimal_move(k)
                        /\ log_game_over' = "" =>
                               heaps' = Removed(heaps, move_options[k + 1].heap_index,
                                                move_options[k + 1].remove_amount))

\* C16 witness: a move has been applied to a game that goes on with two
\* heaps.
C16_Witness ==
    /\ turn_count >= 2
    /\ ~Terminal
    /\ Len(heaps) = 2

\* C17: every move that find_optimal_moves returns for the heaps, and
\* every move offered as a button, has 0 < remove_amount <= current_size,
\* new_size = current_size - remove_amount, 0 <= new_size < current_size,
\* and current_size the size of the heap at its 1-based heap_index.
WellFormedMove(m, hs) ==
    /\ 0 < m.remove_amount
    /\ m.remove_amount <= m.current_size
    /\ m.new_size = m.current_size - m.remove_amount
    /\ 0 <= m.new_size
    /\ m.new_size < m.current_size
    /\ m.heap_index \in DOMAIN hs
    /\ m.current_size = hs[m.heap_index]
    /\ m.heap_true_index = m.heap_index - 1

\* C17: the moves computed for the heaps and the moves offered are well formed.
C17_MovesWellFormed ==
    LET moves == find_optimal_moves(heaps, calculate_nim_sum(heaps))
    IN  /\ \A k \in DOMAIN moves : WellFormedMove(moves[k], heaps)
        /\ move_frame = "optimal" =>
               \A k \in DOMAIN move_options : WellFormedMove(move_options[k], heaps)

\* C17 witness: a position for which two or more moves are offered.
C17_Witness ==
    /\ move_frame = "optimal"
    /\ Len(move_options) >= 2

\* C18: find_optimal_moves lists its moves in strictly ascending heap
\* index, one for exactly each heap whose size XOR the nim-sum is smaller
\* than its size, these are the moves offered, and for [3, 4, 5] the
\* nim-sum is 2 and the only move removes 2 from heap 1, leaving 1.
C18_MovesInHeapOrder ==
    LET nim_sum == calculate_nim_sum(heaps)
        moves == find_optimal_moves(heaps, nim_sum)
    IN  /\ \A j \in DOMAIN moves : \A k \in DOMAIN moves :
               j < k => moves[j].heap_index < moves[k].heap_index
        /\ {moves[k].heap_index : k \in DOMAIN moves}
               = {i \in DOMAIN heaps : Xor(heaps[i], nim_sum) < heaps[i]}
        /\ move_frame = "optimal" => move_options = moves
        /\ heaps = <<3, 4, 5>> =>
               /\ nim_sum = 2
               /\ moves = <<[heap_index |-> 1, current_size |-> 3, remove_amount |-> 2,
                             new_size |-> 1, heap_true_index |-> 0]>>

\* C18 witness: the game started on [3, 4, 5] offers its single move.
C18_Witness ==
    /\ heaps = <<3, 4, 5>>
    /\ turn_count = 1
    /\ move_frame = "optimal"
    /\ Len(move_options) = 1
    /\ move_options[1].remove_amount = 2

\* Bit k of the number n.
Bit(n, k) == (n \div (2 ^ k)) % 2

\* The number whose bit k is the parity of the count of heaps with bit k set.
RECURSIVE ParityFrom(_, _)
ParityFrom(hs, k) ==
    IF k > MaxSize THEN 0
    ELSE (2 ^ k) * (Cardinality({i \in DOMAIN hs : Bit(hs[i], k) = 1}) % 2)
            + ParityFrom(hs, k + 1)

\* The heap lists that are hs in another order.
Reorderings(hs) ==
    {[i \in DOMAIN hs |-> hs[f[i]]] : f \in Permutations(DOMAIN hs)}

\* C19: calculate_nim_sum is 0 on the empty sequence, is the bitwise
\* exclusive or of the heap sizes, and gives the same value on every
\* reordering of the heaps.
C19_NimSumOrderIndependent ==
    /\ calculate_nim_sum(<<>>) = 0
    /\ calculate_nim_sum(heaps) = ParityFrom(heaps, 0)
    /\ \A p \in Reorderings(heaps) : calculate_nim_sum(p) = calculate_nim_sum(heaps)

\* C19 witness: a position of three heaps of different sizes.
C19_Witness ==
    /\ Len(heaps) = 3
    /\ Cardinality({heaps[i] : i \in DOMAIN heaps}) = 3
    /\ calculate_nim_sum(heaps) # 0

====
